---- MODULE Spec2Model ----
(***************************************************************************)
(* RubinTV live observation pipeline: the current-day bucket poller, the   *)
(* websocket fan-out it notifies, and the historical poller, modelled as   *)
(* one state machine over a shared object store and a shared clock.        *)
(***************************************************************************)
EXTENDS Integers, Sequences, FiniteSets, TLC

VARIABLES
    today,              \* the value get_current_day_obs() returns now (YYYYMMDD)
    bucket,             \* location name -> set of stored objects [key, hash]
    puts,               \* number of objects deposited so far
    cp_pc,              \* CurrentPoller task: "day", "camera", "dead"
    cp_exception,       \* the exception that ended the task, "" while it runs
    cp_li,              \* index of the location the poll loop is at
    cp_ci,              \* index of the camera the poll loop is at
    current_day_obs,    \* the poll loop's local current_day_obs
    cp_objects,         \* CurrentPoller._objects
    cp_metadata,        \* CurrentPoller._metadata
    cp_channels,        \* CurrentPoller._channels
    sent,               \* messages the last camera pass handed to the hub
    unchanged_polls,    \* complete iterations run since the store last changed
    connected_clients,  \* websockets_clients.connected_clients, insertion order
    ws_ignored,         \* the request the handler last logged and ignored
    hp_pc,              \* HistoricalPoller task: "check", "refresh", "sleep"
    hp_li,              \* index of the location being refreshed
    hp_have_downloaded, \* HistoricalPoller._have_downloaded
    hp_last_reload,     \* HistoricalPoller._last_reload
    hp_events,          \* HistoricalPoller._events
    hp_metadata,        \* HistoricalPoller._metadata
    hp_nr_metadata,     \* HistoricalPoller._nr_metadata
    hp_camera_years,    \* HistoricalPoller._camera_years
    hp_logged,          \* cameras whose listing error the latest refresh logged
    ls_pc,              \* S3Client.list_objects call: "idle", "page", "done"
    ls_pages,           \* the responses the store gives to the call, in order
    ls_response,        \* index of the response the call holds
    ls_requests,        \* list_objects_v2 requests the call has made
    ls_objects,         \* list_objects' local objects
    bc_pc,              \* a notification in progress: "idle", "sending", "raised"
    bc_stamp,           \* number of messages the poller has emitted so far
    bc_target,          \* the id the message in progress is for
    bc_ws,              \* the websocket whose send_json is awaited
    bc_pos,             \* entries the dict iterator has passed (di_pos)
    bc_used,            \* size of the dict when the iterator was made (di_used)
    bc_len,             \* entries the iterator still expects (len)
    bc_inbox,           \* websocket -> stamps of the messages written to it, in order
    bc_steady,          \* websockets subscribed to the target since the loop began
    lf_pc,              \* lifespan: "serving", "closing", "stopped", "failed"
    today_polling,      \* the task of poll_buckets_for_todays_data: "running", "cancelled"
    historical_polling, \* the task of check_for_new_day: "running", "cancelled"
    lf_clients,         \* websockets_clients.clients: the websockets, insertion order
    lf_open,            \* the websockets that are open
    lf_i,               \* entries of clients.values() the closing loop has passed
    cp_url,             \* keys of _channels whose cached Event has its url set
    px_request,         \* the request proxy_video was last called with
    px_response,        \* what proxy_video answered
    cl_objects,         \* a listing handed to the sieves of the pollers
    cl_current,         \* how CurrentPoller's sieves divide it
    cl_bucket           \* how BucketPoller's sieves divide it

envVars == <<today, bucket, puts>>
cpVars == <<cp_pc, cp_exception, cp_li, cp_ci, current_day_obs, cp_objects, cp_metadata,
            cp_channels, sent, unchanged_polls>>
hubVars == <<connected_clients, ws_ignored>>
hpVars == <<hp_pc, hp_li, hp_have_downloaded, hp_last_reload, hp_events,
            hp_metadata, hp_nr_metadata, hp_camera_years, hp_logged>>
lsVars == <<ls_pc, ls_pages, ls_response, ls_requests, ls_objects>>
bcVars == <<bc_pc, bc_stamp, bc_target, bc_ws, bc_pos, bc_used, bc_len, bc_inbox,
            bc_steady>>
lifeVars == <<lf_pc, today_polling, historical_polling, lf_clients, lf_open, lf_i>>
urlVars == <<cp_url>>
pxVars == <<px_request, px_response>>
clVars == <<cl_objects, cl_current, cl_bucket>>
extVars == <<bcVars, lifeVars, urlVars, pxVars, clVars>>
vars == <<envVars, cpVars, hubVars, hpVars, lsVars, extVars>>

----------------------------------------------------------------------------
(* Bounds of the model *)

\* objects deposited in the store during a run
MaxPuts == 2
\* websocket connections that exist during a run
MaxClients == 2
\* objects deposited while clients are connected
MaxServicePuts == 1
\* day rollovers of the clock during a run
MaxRollovers == 1
\* pages the store splits one listing into
MaxListPages == 2
\* messages the poller emits in the send-by-send model of a notification
MaxBroadcasts == 2
\* objects in a listing handed to the sieves
MaxListed == 3
\* objects in one page of a listing
MaxPageSize == 2

----------------------------------------------------------------------------
(* Model fixtures: locations, cameras, channels *)

Locations == <<"slac", "summit">>

CamerasOf(loc) ==
    IF loc = "slac" THEN <<"ts8">>
    ELSE IF loc = "summit" THEN <<"auxtel", "lsstcam">>
    ELSE <<>>

Online(cam) == cam # "lsstcam"

ChannelsOf(cam) ==
    IF cam = "ts8" THEN <<"monitor", "movie">> ELSE <<"monitor">>

\* Camera.per_day_channels: channels with at most one event a day
PerDayChannelsOf(cam) ==
    IF cam = "auxtel" THEN <<"day_movie">> ELSE <<>>

Range(s) == {s[i] : i \in DOMAIN s}

LocationNames == Range(Locations)

\* f"{location.name}/{camera.name}"
LocCam(loc, cam) == loc \o "/" \o cam

\* f"{cam_loc_id}/{chan.name}"
LocCamChan(loc, cam, chan) == LocCam(loc, cam) \o "/" \o chan

None == [none |-> TRUE]

----------------------------------------------------------------------------
(* The clock and the object store *)

\* the day the run starts on
FirstDay == 20240115

NextDay(d) == d + 1

\* the last segment of keys that end with "metadata.json"
MetadataFileNames == {"metadata.json", "extra_metadata.json"}

\* decimal sequence strings and the integers they parse to
SeqStrings == {"000001", "000002"}

\* the integer the sentinel seq "final" is given: seq = 99999
FinalSeq == 99999

\* the seq strings of a movie channel that ends its day with a "final" record
MovieSeqStrings == {"099998", "100000", "final"}

SeqInt(s) ==
    IF s = "000001" THEN 1
    ELSE IF s = "000002" THEN 2
    ELSE IF s = "099998" THEN 99998
    ELSE IF s = "100000" THEN 100000
    ELSE IF s = "final" THEN FinalSeq
    ELSE 0

Hashes == {"abc", "def"}

\* key  {camera}/{day}/{path[1]}/.../{path[n]}
Key(cam, day, path) == [camera |-> cam, day |-> day, path |-> path]

\* the keys the cameras deposit objects under on one day
DepositKeys(day) ==
    {Key("ts8", day, <<n>>) : n \in MetadataFileNames}
        \cup {Key("ts8", day, <<"monitor", s, "img.jpg">>) : s \in SeqStrings}
        \cup {Key("ts8", day, <<"movie", "000001", "img.jpg">>),
              Key("ts8", day, <<"night_report", "plots", "plot.png">>),
              Key("auxtel", day, <<"metadata.json">>),
              Key("auxtel", day, <<"monitor", "000001", "img.jpg">>),
              Key("auxtel", day, <<"day_movie", "000001", "img.jpg">>),
              Key("lsstcam", day, <<"monitor", "000001", "img.jpg">>)}

\* what the cameras of a location may deposit on one day
Deposits(loc, day) ==
    {[key |-> k, hash |-> h] :
        k \in {d \in DepositKeys(day) : d.camera \in Range(CamerasOf(loc))},
        h \in Hashes}

\* S3 put_object: the object replaces any object stored under the same key
PutObject(loc, obj) ==
    /\ puts < MaxPuts
    /\ obj \in Deposits(loc, today)
    /\ obj \notin bucket[loc]
    /\ bucket' = [bucket EXCEPT ![loc] =
                    {o \in @ : o.key # obj.key} \cup {obj}]
    /\ puts' = puts + 1
    /\ today' = today
    /\ unchanged_polls' = IF cp_pc = "day" THEN 0 ELSE -1
    /\ UNCHANGED <<cp_pc, cp_exception, cp_li, cp_ci, current_day_obs, cp_objects,
                   cp_metadata, cp_channels, sent>>
    /\ UNCHANGED <<hubVars, hpVars, lsVars, extVars>>

\* a stored object in its first version is written again under the same key
\* with other content: the store gives the key a new hash
OverwriteObject(loc, obj) ==
    /\ obj \in bucket[loc]
    /\ obj.hash = "abc"
    /\ bucket' = [bucket EXCEPT ![loc] =
                    (@ \ {obj}) \cup {[key |-> obj.key, hash |-> "def"]}]
    /\ unchanged_polls' = IF cp_pc = "day" THEN 0 ELSE -1
    /\ UNCHANGED <<puts, today, cp_pc, cp_exception, cp_li, cp_ci,
                   current_day_obs, cp_objects, cp_metadata, cp_channels, sent>>
    /\ UNCHANGED <<hubVars, hpVars, lsVars, extVars>>

\* get_current_day_obs() moves on to the next day
DayRollover ==
    /\ today < FirstDay + MaxRollovers
    /\ today' = NextDay(today)
    /\ unchanged_polls' = IF cp_pc = "day" THEN 0 ELSE -1
    /\ UNCHANGED <<bucket, puts>>
    /\ UNCHANGED <<cp_pc, cp_exception, cp_li, cp_ci, current_day_obs, cp_objects,
                   cp_metadata, cp_channels, sent>>
    /\ UNCHANGED <<hubVars, hpVars, lsVars, extVars>>

----------------------------------------------------------------------------
(* S3Client *)

RECURSIVE Perms(_)
Perms(S) ==
    IF S = {} THEN {<<>>}
    ELSE UNION {{<<x>> \o p : p \in Perms(S \ {x})} : x \in S}

\* list_objects(prefix) for prefix "{camera}/{day}": every stored object under
\* the prefix, in the order the store returns them, or a failure of the call
ListObjectsDay(loc, cam, day) ==
    {[ok |-> TRUE, objects |-> p] :
        p \in Perms({o \in bucket[loc] :
                        o.key.camera = cam /\ o.key.day = day})}
        \cup {[ok |-> FALSE, objects |-> <<>>]}

\* list_objects(prefix) for prefix "{camera}"
ListObjectsCamera(loc, cam) ==
    {[ok |-> TRUE, objects |-> p] :
        p \in Perms({o \in bucket[loc] : o.key.camera = cam})}
        \cup {[ok |-> FALSE, objects |-> <<>>]}

\* the decoded JSON body of a stored object, which its ETag identifies
JsonOf(obj) == [json |-> obj.hash]

\* how a get_object call may end: the decoded body ("ok"), None on a
\* ClientError ("none"), or an exception: a body that is no JSON, a transport
\* error ("raise")
GetObjectOutcomes == {"ok", "none", "raise"}

\* _get_object(key)
get_object(obj, outcome) ==
    [raised |-> outcome = "raise",
     data |-> IF outcome = "ok" THEN JsonOf(obj) ELSE None]

----------------------------------------------------------------------------
(* Event: the record an object key parses to *)

\* Event(key, hash): {camera}/{day}/{channel}/{seq}/{filename}; any other
\* key is rejected
IsEventKey(key) ==
    Len(key.path) = 3 /\ key.path[2] \in SeqStrings \cup MovieSeqStrings

Event(obj) ==
    [key |-> obj.key, hash |-> obj.hash,
     camera_name |-> obj.key.camera, day_obs |-> obj.key.day,
     channel_name |-> obj.key.path[1], seq_num |-> SeqInt(obj.key.path[2])]

\* the Event as get_current_channel_event leaves it in the cache: its url is
\* set to the presigned URL of its key
WithUrl(event) ==
    [f \in DOMAIN event \cup {"url"} |->
        IF f = "url" THEN "presigned" ELSE event[f]]

\* an equality over every field of the Event, url included
EventEq_all_fields(a, b) == a = b

\* Event.__eq__: equal iff key and hash are equal; an Event never equals None
EventEq(a, b) ==
    IF a = None \/ b = None THEN a = b
    ELSE a.key = b.key /\ a.hash = b.hash

\* objects_to_events: the objects that parse, in order
objects_to_events(objects) ==
    LET parses(o) == IsEventKey(o.key)
        kept == SelectSeq(objects, parses)
    IN [i \in 1..Len(kept) |-> Event(kept[i])]

----------------------------------------------------------------------------
(* Websocket hub: websocket_helpers *)

\* the for loop over connected_clients.items(): every client whose
\* (to_update, id) passes the test is sent the payload, in insertion order; a
\* send_json that raises ends the loop with the exception
RECURSIVE SendLoop(_, _, _, _, _)
SendLoop(clients, i, kind, target, failing) ==
    IF i > Len(clients) THEN [to |-> <<>>, failed |-> <<>>]
    ELSE IF clients[i].kind = kind /\ clients[i].target = target
    THEN IF clients[i].ws \in failing
         THEN [to |-> <<>>, failed |-> <<clients[i].ws>>]
         ELSE LET rest == SendLoop(clients, i + 1, kind, target, failing)
              IN [to |-> <<clients[i].ws>> \o rest.to, failed |-> rest.failed]
    ELSE SendLoop(clients, i + 1, kind, target, failing)

\* notify_camera_update((loc_cam, events)): to_update == "camera" and
\* loc_cam_id == loc_cam
notify_camera_update(clients, loc_cam, failing) ==
    SendLoop(clients, 1, "camera", loc_cam, failing)

\* notify_channel_update((loc_cam_chan, event)): to_update == "camera" and
\* loc_cam_chan_id == loc_cam_chan
notify_channel_update(clients, loc_cam_chan, failing) ==
    SendLoop(clients, 1, "camera", loc_cam_chan, failing)

\* the payload notify_camera_update serialises for a list of events: the list
\* of their dicts, None for an empty list
SerialisedEvents(events) ==
    IF events = <<>> THEN None ELSE [events |-> events]

\* the payload notify_camera_update serialises for a metadata dict: the dict,
\* None for None
SerialisedDict(data) == data

\* one message handed to the hub: which notification, for which target, its
\* payload, the websockets it was sent to, and the websocket whose send raised
Message(msg, target, body, r) ==
    [msg |-> msg, target |-> target, body |-> body,
     to |-> r.to, failed |-> r.failed]

\* the exception a notification leaves with, "" when every send returned
SendException(r) == IF r.failed # <<>> THEN "SendError" ELSE ""

----------------------------------------------------------------------------
(* CurrentPoller *)

\* dict assignment d[k] = v
DictSet(d, k, v) == [x \in DOMAIN d \cup {k} |-> IF x = k THEN v ELSE d[x]]

\* o["key"].endswith("metadata.json")
EndsWithMetadataJson(key) == key.path[Len(key.path)] \in MetadataFileNames

\* "night_report" in o["key"]
ContainsNightReport(key) == \E i \in DOMAIN key.path : key.path[i] = "night_report"

\* objects.pop(objects.index(obj))
PopFirst(objects, obj) ==
    LET i == CHOOSE j \in DOMAIN objects :
                 objects[j] = obj /\ \A k \in 1..(j - 1) : objects[k] # obj
    IN SubSeq(objects, 1, i - 1) \o SubSeq(objects, i + 1, Len(objects))

\* filter_camera_metadata_object: raises ValueError on more than one metadata
\* object, else returns (md_obj or None, the objects without it)
filter_camera_metadata_object(objects) ==
    LET isMd(o) == EndsWithMetadataJson(o.key)
        md_objs == SelectSeq(objects, isMd)
    IN IF Len(md_objs) > 1
       THEN [raised |-> TRUE, md_obj |-> None, objects |-> objects]
       ELSE IF md_objs # <<>>
       THEN [raised |-> FALSE, md_obj |-> md_objs[1],
             objects |-> PopFirst(objects, md_objs[1])]
       ELSE [raised |-> FALSE, md_obj |-> None, objects |-> objects]

\* filter_night_report_objects: (reports, filtered)
filter_night_report_objects(objects) ==
    LET isReport(o) == ContainsNightReport(o.key)
        notReport(o) == ~ContainsNightReport(o.key)
    IN [reports |-> SelectSeq(objects, isReport),
        filtered |-> SelectSeq(objects, notReport)]

\* The state one camera's pass through the loop body works on: exc names the
\* exception that has left the body ("" for none), work is the local list
\* `objects`.
PollState(work) ==
    [exc |-> "", work |-> work, objects |-> cp_objects,
     metadata |-> cp_metadata, channels |-> cp_channels, sent |-> <<>>,
     url |-> cp_url]

\* what self._client.get_object meets for a key: the object's body, a
\* ClientError with an error code, or an error of the transport
StoreAnswers == {"body", "NoSuchKey", "AccessDenied", "EndpointConnectionError"}

\* the answers that botocore raises as ClientError
ClientErrorCodes == {"NoSuchKey", "AccessDenied"}

\* the try/except of _get_object: the body is decoded, every ClientError is
\* turned into None (NoSuchKey is logged as well), anything else propagates
OutcomeOfAnswer(answer) ==
    IF answer = "body" THEN "ok"
    ELSE IF answer \in ClientErrorCodes THEN "none"
    ELSE "raise"

\* S3Client._get_object(key) against a store that gives the answer
S3Client_get_object(obj, answer) == get_object(obj, OutcomeOfAnswer(answer))

\* process_metadata_file: fetch the object; store and notify when it is new
process_metadata_file(st, md_obj, camera_ref, outcome, failing) ==
    LET fetch == get_object(md_obj, outcome)
    IN IF fetch.raised THEN [st EXCEPT !.exc = "FetchError"]
       ELSE IF camera_ref \notin DOMAIN st.metadata
               \/ fetch.data # st.metadata[camera_ref]
       THEN LET r == notify_camera_update(connected_clients, camera_ref,
                                          failing)
            IN [st EXCEPT !.metadata = DictSet(@, camera_ref, fetch.data),
                          !.sent = Append(@, Message("metadata", camera_ref,
                                                 SerialisedDict(fetch.data), r)),
                          !.exc = SendException(r)]
       ELSE st

\* seive_out_metadata: the ValueError is caught and logged, and the name md_obj
\* the next statement reads is then unbound: an UnboundLocalError leaves the body
seive_out_metadata(st, cam_loc_id, fetch, failing) ==
    LET f == filter_camera_metadata_object(st.work)
    IN IF f.raised THEN [st EXCEPT !.exc = "UnboundLocalError"]
       ELSE IF f.md_obj # None
       THEN process_metadata_file([st EXCEPT !.work = f.objects], f.md_obj,
                                  cam_loc_id, fetch, failing)
       ELSE [st EXCEPT !.work = f.objects]

\* seive_out_night_reports: the night reports are dropped from the list
seive_out_night_reports(st) ==
    IF st.exc # "" THEN st
    ELSE [st EXCEPT !.work = filter_night_report_objects(@).filtered]

\* lines 66-70: remember the remaining objects when they differ from the cache
store_objects(st, cam_loc_id) ==
    IF st.exc # "" THEN st
    ELSE IF st.work # <<>>
            /\ (cam_loc_id \notin DOMAIN st.objects
                \/ st.work # st.objects[cam_loc_id])
    THEN [st EXCEPT !.objects = DictSet(@, cam_loc_id, st.work)]
    ELSE st

\* the for loop of update_channel_events over camera.channels
RECURSIVE update_channel_loop(_, _, _, _, _, _)
update_channel_loop(st, events, chans, i, cam_loc_id, failing) ==
    IF i > Len(chans) \/ st.exc # "" THEN st
    ELSE
      LET inChan(e) == e.channel_name = chans[i]
          ch_events == SelectSeq(events, inChan)
          chan_lookup == cam_loc_id \o "/" \o chans[i]
      IN IF ch_events = <<>>
         THEN update_channel_loop(st, events, chans, i + 1, cam_loc_id, failing)
         ELSE
           \* current_event = ch_events.pop()
           LET current_event == ch_events[Len(ch_events)]
               cached == IF chan_lookup \in st.url
                         THEN WithUrl(st.channels[chan_lookup])
                         ELSE st.channels[chan_lookup]
           IN IF ~EventEq(cached, current_event)
              THEN LET r == notify_channel_update(connected_clients,
                                                  chan_lookup, failing)
                       st2 == [st EXCEPT
                                 !.channels[chan_lookup] = current_event,
                                 !.url = @ \ {chan_lookup},
                                 !.sent = Append(@, Message("channel",
                                             chan_lookup, current_event, r)),
                                 !.exc = SendException(r)]
                   IN update_channel_loop(st2, events, chans, i + 1,
                                          cam_loc_id, failing)
              ELSE update_channel_loop(st, events, chans, i + 1,
                                       cam_loc_id, failing)

\* update_channel_events(events, camera, cam_loc_id)
update_channel_events(st, cam, cam_loc_id, failing) ==
    LET events == objects_to_events(st.work)
    IN IF st.exc # "" \/ events = <<>> THEN st
       ELSE update_channel_loop(st, events, ChannelsOf(cam), 1, cam_loc_id,
                                failing)

\* cam_msg = (cam_loc_id, events); await notify_camera_events_update(cam_msg)
notify_camera_events(st, cam_loc_id, failing) ==
    IF st.exc # "" THEN st
    ELSE LET events == objects_to_events(st.work)
             r == notify_camera_update(connected_clients, cam_loc_id, failing)
         IN [st EXCEPT !.sent = Append(@, Message("camera", cam_loc_id,
                                                  SerialisedEvents(events), r)),
                       !.exc = SendException(r)]

\* the loop body with the camera aggregate sent before the channel updates
process_camera_aggregate_first(st, cam, cam_loc_id, fetch, failing) ==
    update_channel_events(
        notify_camera_events(
            store_objects(
                seive_out_night_reports(
                    seive_out_metadata(st, cam_loc_id, fetch, failing)),
                cam_loc_id),
            cam_loc_id, failing),
        cam, cam_loc_id, failing)

\* the body of the loop over cameras, lines 57-77, after the listing returned
process_camera(st, cam, cam_loc_id, fetch, failing) ==
    notify_camera_events(
        update_channel_events(
            store_objects(
                seive_out_night_reports(
                    seive_out_metadata(st, cam_loc_id, fetch, failing)),
                cam_loc_id),
            cam, cam_loc_id, failing),
        cam_loc_id, failing)

\* current_day_obs = get_current_day_obs(), at the top of the while loop
GetCurrentDayObs ==
    /\ cp_pc = "day"
    /\ current_day_obs' = today
    /\ cp_pc' = "camera"
    /\ cp_li' = 1
    /\ cp_ci' = 1
    /\ sent' = <<>>
    /\ UNCHANGED <<cp_exception, cp_objects, cp_metadata, cp_channels,
                   unchanged_polls>>
    /\ UNCHANGED <<envVars, hubVars, hpVars, lsVars, extVars>>

AtCamera ==
    /\ cp_pc = "camera"
    /\ cp_ci <= Len(CamerasOf(Locations[cp_li]))

\* if not camera.online: continue
SkipOfflineCamera ==
    /\ AtCamera
    /\ ~Online(CamerasOf(Locations[cp_li])[cp_ci])
    /\ cp_ci' = cp_ci + 1
    /\ UNCHANGED <<cp_pc, cp_exception, cp_li, current_day_obs, cp_objects,
                   cp_metadata, cp_channels, sent, unchanged_polls>>
    /\ UNCHANGED <<envVars, hubVars, hpVars, lsVars, extVars>>

\* One online camera's pass through the loop body. The listing is what
\* list_objects returns or its failure, outcome how the metadata fetch ends,
\* failing the websockets whose send_json raises.
PollCamera(outcome, failing) ==
    /\ AtCamera
    /\ LET loc == Locations[cp_li]
           cam == CamerasOf(loc)[cp_ci]
       IN /\ Online(cam)
          /\ \E listing \in ListObjectsDay(loc, cam, current_day_obs) :
               LET st == IF listing.ok
                         THEN process_camera(PollState(listing.objects), cam,
                                             LocCam(loc, cam), outcome, failing)
                         ELSE [PollState(<<>>) EXCEPT !.exc = "ListingError"]
               IN /\ cp_objects' = st.objects
                  /\ cp_metadata' = st.metadata
                  /\ cp_channels' = st.channels
                  /\ cp_url' = st.url
                  /\ sent' = st.sent
                  /\ cp_exception' = st.exc
                  /\ cp_pc' = IF st.exc = "" THEN "camera" ELSE "dead"
                  /\ cp_ci' = IF st.exc = "" THEN cp_ci + 1 ELSE cp_ci
    /\ UNCHANGED <<cp_li, current_day_obs, unchanged_polls>>
    /\ UNCHANGED <<envVars, hubVars, hpVars, lsVars, bcVars, lifeVars, pxVars,
                   clVars>>

\* get_current_channel_event(location_name, camera_name, channel_name): the
\* cached Event of the channel, if there is one, gets its url set and is
\* returned; the request runs while the poll task is suspended
GetCurrentChannelEvent(lookup) ==
    /\ lookup \in DOMAIN cp_channels
    /\ "none" \notin DOMAIN cp_channels[lookup]
    /\ lookup \notin cp_url
    /\ cp_url' = cp_url \cup {lookup}
    /\ UNCHANGED <<envVars, cpVars, hubVars, hpVars, lsVars, bcVars, lifeVars,
                   pxVars, clVars>>

\* await asyncio.sleep(3) after the cameras of a location; after the last
\* location the while loop starts over
Sleep ==
    /\ cp_pc = "camera"
    /\ cp_ci > Len(CamerasOf(Locations[cp_li]))
    /\ IF cp_li < Len(Locations)
       THEN /\ cp_li' = cp_li + 1
            /\ cp_ci' = 1
            /\ UNCHANGED <<cp_pc, unchanged_polls>>
       ELSE /\ cp_pc' = "day"
            /\ unchanged_polls' = IF unchanged_polls < 1
                                  THEN unchanged_polls + 1 ELSE 1
            /\ UNCHANGED <<cp_li, cp_ci>>
    /\ UNCHANGED <<cp_exception, current_day_obs, cp_objects, cp_metadata,
                   cp_channels, sent>>
    /\ UNCHANGED <<envVars, hubVars, hpVars, lsVars, extVars>>

----------------------------------------------------------------------------
(* Websocket clients *)

WebSockets == 1..MaxClients

\* is_valid_client_request: ^(camera|channel|nightreport)\s+[\w\/]+\w+$
is_valid_client_request(req) == req.kind \in {"camera", "channel", "nightreport"}

\* a validation that lets the location's offline cameras through
is_valid_location_camera_offline_too(loc, cam) ==
    /\ loc \in LocationNames
    /\ cam \in Range(CamerasOf(loc))

\* is_valid_location_camera: the location exists, the camera is one of its
\* cameras and is online
is_valid_location_camera(loc, cam) ==
    /\ loc \in LocationNames
    /\ cam \in Range(CamerasOf(loc))
    /\ Online(cam)

\* is_valid_channel
is_valid_channel(cam, chan) == chan \in Range(ChannelsOf(cam))

\* the service requests clients send
ClientRequests ==
    {[kind |-> "camera", loc |-> "slac", cam |-> "ts8", chan |-> ""],
     [kind |-> "channel", loc |-> "slac", cam |-> "ts8", chan |-> "monitor"],
     [kind |-> "camera", loc |-> "summit", cam |-> "auxtel", chan |-> ""],
     [kind |-> "camera", loc |-> "summit", cam |-> "lsstcam", chan |-> ""]}

RequestTarget(req) ==
    IF req.kind = "channel" THEN LocCamChan(req.loc, req.cam, req.chan)
    ELSE LocCam(req.loc, req.cam)

IsValidRequest(req) ==
    /\ is_valid_client_request(req)
    /\ is_valid_location_camera(req.loc, req.cam)
    /\ req.kind = "channel" => is_valid_channel(req.cam, req.chan)

ClientIndex(ws) ==
    {i \in DOMAIN connected_clients : connected_clients[i].ws = ws}

\* connected_clients[websocket] = (kind, target) for a valid request; an
\* invalid request is ignored
Subscribe(ws, req) ==
    /\ IsValidRequest(req)
    /\ LET entry == [ws |-> ws, kind |-> req.kind, target |-> RequestTarget(req)]
       IN /\ entry \notin Range(connected_clients)
          /\ connected_clients' =
                IF ClientIndex(ws) = {} THEN Append(connected_clients, entry)
                ELSE [i \in DOMAIN connected_clients |->
                        IF connected_clients[i].ws = ws THEN entry
                        ELSE connected_clients[i]]
    /\ bc_steady' = bc_steady \ {ws}
    /\ UNCHANGED <<bc_pc, bc_stamp, bc_target, bc_ws, bc_pos, bc_used, bc_len,
                   bc_inbox>>
    /\ UNCHANGED ws_ignored
    /\ UNCHANGED <<envVars, cpVars, hpVars, lsVars, lifeVars, urlVars, pxVars,
                   clVars>>

\* del connected_clients[websocket] on unsubscribe or disconnect. The dict
\* keeps the slot of a deleted entry, so an iterator that has passed the entry
\* keeps its place among the entries that remain.
Disconnect(ws) ==
    /\ ClientIndex(ws) # {}
    /\ LET keep(c) == c.ws # ws
       IN connected_clients' = SelectSeq(connected_clients, keep)
    /\ bc_steady' = bc_steady \ {ws}
    /\ bc_pos' = IF bc_pc = "sending" /\ \E i \in ClientIndex(ws) : i <= bc_pos
                 THEN bc_pos - 1 ELSE bc_pos
    /\ UNCHANGED <<bc_pc, bc_stamp, bc_target, bc_ws, bc_used, bc_len, bc_inbox>>
    /\ UNCHANGED ws_ignored
    /\ UNCHANGED <<envVars, cpVars, hpVars, lsVars, lifeVars, urlVars, pxVars,
                   clVars>>

----------------------------------------------------------------------------
(* A notification, send by send *)

\* the ids the poller sends messages for: a camera and one of its channels
BroadcastTargets ==
    {LocCam("slac", "ts8"), LocCamChan("slac", "ts8", "monitor")}

\* the for loop of notify_camera_update and notify_channel_update from one
\* await to the next: next() on the items iterator raises RuntimeError when
\* the dict has changed size since the iterator was made, or when it finds an
\* entry after it has yielded as many as the dict held; an entry that passes
\* the test is sent the message, any other is passed over
RECURSIVE NextSend(_, _, _, _, _)
NextSend(entries, used, pos, len, target) ==
    IF used # Len(entries)
    THEN [pc |-> "raised", ws |-> 0, pos |-> 0, len |-> 0, used |-> 0]
    ELSE IF pos >= Len(entries)
    THEN [pc |-> "idle", ws |-> 0, pos |-> 0, len |-> 0, used |-> 0]
    ELSE IF len = 0
    THEN [pc |-> "raised", ws |-> 0, pos |-> 0, len |-> 0, used |-> 0]
    ELSE IF entries[pos + 1].kind = "camera" /\ entries[pos + 1].target = target
    THEN [pc |-> "sending", ws |-> entries[pos + 1].ws, pos |-> pos + 1,
          len |-> len - 1, used |-> used]
    ELSE NextSend(entries, used, pos + 1, len - 1, target)

\* a socket that takes each message in front of the ones it holds
Deliver_at_front(inbox, ws, stamp) == [inbox EXCEPT ![ws] = <<stamp>> \o @]

\* await websocket.send_json(...) returns: the message is written to the
\* socket after the ones written before
Deliver(inbox, ws, stamp) == [inbox EXCEPT ![ws] = Append(@, stamp)]

\* the poller awaits a notification for target: the loop runs to its first
\* send, or to its end when no entry passes the test
BroadcastStart(target) ==
    /\ bc_pc = "idle"
    /\ bc_stamp < MaxBroadcasts
    /\ bc_stamp' = bc_stamp + 1
    /\ bc_target' = target
    /\ LET n == Len(connected_clients)
           r == NextSend(connected_clients, n, 0, n, target)
       IN /\ bc_steady' = IF r.pc = "sending"
                          THEN {c.ws : c \in {x \in Range(connected_clients) :
                                     x.kind = "camera" /\ x.target = target}}
                          ELSE {}
          /\ bc_pc' = r.pc
          /\ bc_ws' = r.ws
          /\ bc_pos' = r.pos
          /\ bc_len' = r.len
          /\ bc_used' = r.used
    /\ UNCHANGED bc_inbox
    /\ UNCHANGED <<envVars, cpVars, hubVars, hpVars, lsVars, lifeVars, urlVars,
                   pxVars, clVars>>

\* the awaited send_json returns and the loop runs on to its next send, to
\* its end, or to the RuntimeError of the iterator; nothing catches the
\* error, so it ends the poller's task
SendReturns ==
    /\ bc_pc = "sending"
    /\ bc_inbox' = Deliver(bc_inbox, bc_ws, bc_stamp)
    /\ LET r == NextSend(connected_clients, bc_used, bc_pos, bc_len, bc_target)
       IN /\ bc_steady' = IF r.pc = "sending" THEN bc_steady ELSE {}
          /\ bc_pc' = r.pc
          /\ bc_ws' = r.ws
          /\ bc_pos' = r.pos
          /\ bc_len' = r.len
          /\ bc_used' = r.used
    /\ UNCHANGED <<bc_stamp, bc_target>>
    /\ UNCHANGED <<envVars, cpVars, hubVars, hpVars, lsVars, lifeVars, urlVars,
                   pxVars, clVars>>

----------------------------------------------------------------------------
(* HistoricalPoller *)

\* NightReport(key, hash): {camera}/{day}/night_report/{group}/{filename}
NightReport(obj) ==
    [key |-> obj.key, hash |-> obj.hash, camera |-> obj.key.camera,
     day_obs |-> obj.key.day, group |-> obj.key.path[2]]

\* objects_to_ngt_reports
objects_to_ngt_reports(objects) ==
    LET parses(o) == Len(o.key.path) = 3 /\ o.key.path[1] = "night_report"
        kept == SelectSeq(objects, parses)
    IN [i \in 1..Len(kept) |-> NightReport(kept[i])]

\* the year the regex (\w+)\/([\d]{4})-[\d]{2}-[\d]{2} captures from a key
YearOf(day) == day \div 10000

\* build_year_dict: camera name -> set of years, over the objects' keys
build_year_dict(objects) ==
    LET cams == {objects[i].key.camera : i \in DOMAIN objects}
    IN [c \in cams |->
          {YearOf(objects[i].key.day) :
              i \in {j \in DOMAIN objects : objects[j].key.camera = c}}]

\* "metadata.json" in o["key"]
ContainsMetadataJson(key) ==
    \E i \in DOMAIN key.path : key.path[i] \in MetadataFileNames

\* _get_objects: the listings of the location's online cameras, one after the
\* other; a listing that fails is logged and contributes nothing. listings maps
\* each camera to what its list_objects call returns.
RECURSIVE get_objects_loop_all_cameras(_, _, _)
get_objects_loop_all_cameras(cams, i, listings) ==
    IF i > Len(cams) THEN <<>>
    ELSE (IF listings[cams[i]].ok THEN listings[cams[i]].objects ELSE <<>>)
         \o get_objects_loop_all_cameras(cams, i + 1, listings)

RECURSIVE get_objects_loop(_, _, _)
get_objects_loop(cams, i, listings) ==
    IF i > Len(cams) THEN <<>>
    ELSE (IF Online(cams[i]) /\ listings[cams[i]].ok
          THEN listings[cams[i]].objects ELSE <<>>)
         \o get_objects_loop(cams, i + 1, listings)

get_objects(loc, listings) == get_objects_loop(CamerasOf(loc), 1, listings)

\* except Exception as e: logger.error(e) in _get_objects: the online cameras
\* whose list_objects call raised
get_objects_logged(loc, listings) ==
    {c \in Range(CamerasOf(loc)) : Online(c) /\ ~listings[c].ok}

\* the month and the day of the month of a day_obs
MonthOf(day) == (day \div 100) % 100

DayOf(day) == day % 100

\* sorted(list(days))
RECURSIVE SortAscending(_)
SortAscending(S) ==
    IF S = {} THEN <<>>
    ELSE LET least == CHOOSE x \in S : \A y \in S : x <= y
         IN <<least>> \o SortAscending(S \ {least})

\* the events of a camera on a date, in the order _events holds them
camera_events(loc, cam, a_date) ==
    LET ofCamDate(e) == e.camera_name = cam /\ e.day_obs = a_date
    IN SelectSeq(hp_events[loc], ofCamDate)

\* get_max_seq_for_date
get_max_seq_for_date(loc, cam, a_date) ==
    LET seqs == {e.seq_num : e \in Range(camera_events(loc, cam, a_date))}
    IN CHOOSE n \in seqs : \A k \in seqs : k <= n

\* get_days_for_month_and_year: (day, max seq_num) for each day of the month
\* on which the camera has an event, in ascending order of day
get_days_for_month_and_year(loc, cam, month, year) ==
    LET days == {DayOf(e.day_obs) :
                    e \in {x \in Range(hp_events[loc]) :
                              /\ YearOf(x.day_obs) = year
                              /\ MonthOf(x.day_obs) = month
                              /\ x.camera_name = cam}}
        sorted == SortAscending(days)
    IN [i \in 1..Len(sorted) |->
          <<sorted[i],
            get_max_seq_for_date(loc, cam,
                                 year * 10000 + month * 100 + sorted[i])>>]

\* a keyed dict that leaves out the channels without an event
event_list_to_channel_keyed_dict_sparse(event_list, channels) ==
    [ch \in {c \in Range(channels) :
                \E i \in DOMAIN event_list : event_list[i].channel_name = c} |->
        LET inChan(e) == e.channel_name = ch
        IN SelectSeq(event_list, inChan)]

\* event_list_to_channel_keyed_dict
event_list_to_channel_keyed_dict(event_list, channels) ==
    [ch \in Range(channels) |->
        LET inChan(e) == e.channel_name = ch
        IN SelectSeq(event_list, inChan)]

\* get_events_for_date
get_events_for_date(loc, cam, a_date) ==
    event_list_to_channel_keyed_dict(camera_events(loc, cam, a_date),
                                     ChannelsOf(cam))

\* max(iterable, key=...): the index of the first element whose key no other
\* element exceeds, given the sequence of the elements' keys
FirstMaxIndex(keys) ==
    CHOOSE i \in DOMAIN keys :
        /\ \A j \in DOMAIN keys : keys[j] <= keys[i]
        /\ \A j \in 1..(i - 1) : keys[j] < keys[i]

\* the events of a camera, in the order _events holds them
events_of_camera(loc, cam) ==
    LET ofCam(e) == e.camera_name = cam
    IN SelectSeq(hp_events[loc], ofCam)

\* most_recent = max(events of the camera, key=seq_num, or 99999 for a seq_num
\* that is no int): seq_num is an integer for every event here, final included
most_recent(loc, cam) ==
    LET evs == events_of_camera(loc, cam)
        seq_keys == [i \in DOMAIN evs |-> evs[i].seq_num]
    IN evs[FirstMaxIndex(seq_keys)]

\* get_most_recent_day: the day of the event that max() picks by seq_num
get_most_recent_day(loc, cam) == most_recent(loc, cam).day_obs

\* get_most_recent_event: events.pop() of the camera's events of the channel,
\* None when there is none
get_most_recent_event(loc, cam, chan) ==
    LET ofChan(e) == e.camera_name = cam /\ e.channel_name = chan
        events == SelectSeq(hp_events[loc], ofChan)
    IN IF events # <<>> THEN events[Len(events)] ELSE None

\* sorted(..., reverse=True) of a set of numbers
SortDescending(S) ==
    LET asc == SortAscending(S)
    IN [i \in 1..Len(asc) |-> asc[Len(asc) + 1 - i]]

\* get_years: sorted(list(self._camera_years[location.name][camera.name])); a
\* camera without an entry in the location's year dict is a KeyError
get_years(loc, cam) ==
    IF cam \in DOMAIN hp_camera_years[loc]
    THEN [raised |-> "", years |-> SortAscending(hp_camera_years[loc][cam])]
    ELSE [raised |-> "KeyError", years |-> <<>>]

\* get_months_for_year: the months of the year in which the camera has an
\* event, latest first
get_months_for_year(loc, cam, year) ==
    SortDescending({MonthOf(e.day_obs) :
                       e \in {x \in Range(hp_events[loc]) :
                                 /\ YearOf(x.day_obs) = year
                                 /\ x.camera_name = cam}})

\* get_camera_calendar: year -> month -> get_days_for_month_and_year, over
\* the years of get_years and the months of get_months_for_year
get_camera_calendar(loc, cam) ==
    LET active_years == get_years(loc, cam)
    IN IF active_years.raised # ""
       THEN [raised |-> active_years.raised, years |-> <<>>]
       ELSE [raised |-> "",
             years |->
                [year \in Range(active_years.years) |->
                    [month \in Range(get_months_for_year(loc, cam, year)) |->
                        get_days_for_month_and_year(loc, cam, month, year)]]]

\* get_metadata_json(bucket, camera, a_date): the decoded metadata document of
\* the camera and day, the empty dict (None here) when the bucket has none
get_metadata_json(loc, cam, a_date) ==
    LET blobs == {o \in bucket[loc] : /\ o.key.camera = cam
                                      /\ o.key.day = a_date
                                      /\ o.key.path = <<"metadata.json">>}
    IN IF blobs = {} THEN None ELSE JsonOf(CHOOSE o \in blobs : TRUE)

\* the sequence numbers a metadata document is keyed by: the documents of the
\* model describe the exposure with seq 1
MetadataSeqs(metadata) ==
    IF "none" \in DOMAIN metadata THEN {} ELSE {1}

\* get_events_for_prefix_and_date: the events stored for a channel of the
\* camera on a day, sorted by seq in descending order
get_events_for_prefix_and_date(loc, cam, chan, the_date) ==
    LET events == {Event(o) : o \in {x \in bucket[loc] :
                                        /\ x.key.camera = cam
                                        /\ x.key.day = the_date
                                        /\ IsEventKey(x.key)
                                        /\ x.key.path[1] = chan}}
        seqs == SortDescending({e.seq_num : e \in events})
    IN [i \in 1..Len(seqs) |-> CHOOSE e \in events : e.seq_num = seqs[i]]

\* make_table_rows_from_columns_by_seq: one row per seq of the events and of
\* the metadata, in descending order of seq, each row keyed by channel
make_table_rows_from_columns_by_seq(events_dict, metadata) ==
    LET seqOf(ch) == {events_dict[ch][i].seq_num : i \in DOMAIN events_dict[ch]}
        seqs == UNION {seqOf(ch) : ch \in DOMAIN events_dict}
                    \cup MetadataSeqs(metadata)
        order == SortDescending(seqs)
        row(n) == [ch \in {c \in DOMAIN events_dict : n \in seqOf(c)} |->
                     LET last == CHOOSE i \in DOMAIN events_dict[ch] :
                                   /\ events_dict[ch][i].seq_num = n
                                   /\ \A j \in DOMAIN events_dict[ch] :
                                         events_dict[ch][j].seq_num = n => j <= i
                     IN events_dict[ch][last]]
    IN [i \in 1..Len(order) |-> [seq |-> order[i], row |-> row(order[i])]]

\* today's events by channel, for the channels that have any
todays_events_dict(loc, cam) ==
    [ch \in {c \in Range(ChannelsOf(cam)) :
                get_events_for_prefix_and_date(loc, cam, c, today) # <<>>} |->
        get_events_for_prefix_and_date(loc, cam, ch, today)]

\* a most-recent-day lookup that falls through to the historical store
\* whenever today has no event, whatever metadata today has
get_most_recent_day_events_without_metadata_test(loc, cam) ==
    LET events == todays_events_dict(loc, cam)
    IN IF DOMAIN events # {}
       THEN [date |-> today,
             rows |-> make_table_rows_from_columns_by_seq(
                          events, get_metadata_json(loc, cam, today))]
       ELSE LET the_date == get_most_recent_day(loc, cam)
            IN [date |-> the_date,
                rows |-> make_table_rows_from_columns_by_seq(
                             get_events_for_date(loc, cam, the_date),
                             get_metadata_json(loc, cam, the_date))]

\* get_most_recent_day_events: today's date and table when today has an event
\* or metadata, else those of the historical store's most recent day
get_most_recent_day_events(loc, cam) ==
    LET metadata == get_metadata_json(loc, cam, today)
        events == todays_events_dict(loc, cam)
    IN IF DOMAIN events # {} \/ "none" \notin DOMAIN metadata
       THEN [date |-> today,
             rows |-> make_table_rows_from_columns_by_seq(events, metadata)]
       ELSE LET the_date == get_most_recent_day(loc, cam)
            IN [date |-> the_date,
                rows |-> make_table_rows_from_columns_by_seq(
                             get_events_for_date(loc, cam, the_date),
                             get_metadata_json(loc, cam, the_date))]

\* is_busy() that also answers true while a rollover rebuild is due
is_busy_after_rollover == ~hp_have_downloaded \/ today > hp_last_reload

\* is_busy(): return not self._have_downloaded
is_busy == ~hp_have_downloaded

\* if not self._have_downloaded or self._last_reload > get_current_day_obs()
reload_is_due == ~hp_have_downloaded \/ hp_last_reload > today

\* the test at the top of check_for_new_day's loop
CheckForNewDay ==
    /\ hp_pc = "check"
    /\ IF reload_is_due
       THEN hp_pc' = "refresh" /\ hp_li' = 1
       ELSE hp_pc' = "sleep" /\ hp_li' = hp_li
    /\ UNCHANGED <<hp_have_downloaded, hp_last_reload, hp_events, hp_metadata,
                   hp_nr_metadata, hp_camera_years, hp_logged>>
    /\ UNCHANGED <<envVars, cpVars, hubVars, lsVars, extVars>>

\* what list_objects(prefix=cam.name) would return during one refresh, for
\* each camera of the location
HistoricalListings(loc) ==
    LET cams == Range(CamerasOf(loc))
        outcomes(c) == ListObjectsCamera(loc, c)
    IN {f \in [cams -> UNION {outcomes(c) : c \in cams}] :
            \A c \in cams : f[c] \in outcomes(c)}

\* a refresh that stores the calendar years of the new listing and leaves the
\* events, metadata and night reports for a later step
RefreshLocationStore_years_first ==
    /\ hp_pc = "refresh"
    /\ hp_li <= Len(Locations)
    /\ LET loc == Locations[hp_li]
       IN \E listings \in HistoricalListings(loc) :
            /\ hp_camera_years' =
                  DictSet(hp_camera_years, loc,
                          build_year_dict(get_objects(loc, listings)))
            /\ hp_logged' = get_objects_logged(loc, listings)
    /\ hp_li' = hp_li + 1
    /\ UNCHANGED <<hp_pc, hp_have_downloaded, hp_last_reload, hp_events,
                   hp_metadata, hp_nr_metadata>>
    /\ UNCHANGED <<envVars, cpVars, hubVars, lsVars, extVars>>

\* _refresh_location_store(location): list, then filter_convert_store_objects
RefreshLocationStore ==
    /\ hp_pc = "refresh"
    /\ hp_li <= Len(Locations)
    /\ LET loc == Locations[hp_li]
       IN \E listings \in HistoricalListings(loc) :
            LET objects == get_objects(loc, listings)
                isMd(o) == ContainsMetadataJson(o.key)
                isNr(o) == ContainsNightReport(o.key)
                isEv(o) == ~(isMd(o) \/ isNr(o))
            IN /\ hp_camera_years' =
                     DictSet(hp_camera_years, loc, build_year_dict(objects))
               /\ hp_metadata' =
                     DictSet(hp_metadata, loc, SelectSeq(objects, isMd))
               /\ hp_nr_metadata' =
                     DictSet(hp_nr_metadata, loc,
                             objects_to_ngt_reports(SelectSeq(objects, isNr)))
               /\ hp_events' =
                     DictSet(hp_events, loc,
                             objects_to_events(SelectSeq(objects, isEv)))
               /\ hp_logged' = get_objects_logged(loc, listings)
    /\ hp_li' = hp_li + 1
    /\ UNCHANGED <<hp_pc, hp_have_downloaded, hp_last_reload>>
    /\ UNCHANGED <<envVars, cpVars, hubVars, lsVars, extVars>>

\* _refresh_location_store(location) when the awaited run_in_executor raises
\* (the worker thread cannot be started): except Exception logs the error and
\* the location's entries are left as they were
RefreshLocationStoreRaises ==
    /\ hp_pc = "refresh"
    /\ hp_li <= Len(Locations)
    /\ hp_logged' = {"RuntimeError"}
    /\ hp_li' = hp_li + 1
    /\ UNCHANGED <<hp_pc, hp_have_downloaded, hp_last_reload, hp_events,
                   hp_metadata, hp_nr_metadata, hp_camera_years>>
    /\ UNCHANGED <<envVars, cpVars, hubVars, lsVars, extVars>>

\* self._last_reload = get_current_day_obs(); self._have_downloaded = True
FinishReload ==
    /\ hp_pc = "refresh"
    /\ hp_li > Len(Locations)
    /\ hp_last_reload' = today
    /\ hp_have_downloaded' = TRUE
    /\ hp_pc' = "check"
    /\ UNCHANGED <<hp_li, hp_events, hp_metadata, hp_nr_metadata,
                   hp_camera_years, hp_logged>>
    /\ UNCHANGED <<envVars, cpVars, hubVars, lsVars, extVars>>

\* await asyncio.sleep(self.CHECK_NEW_DAY_PERIOD) returns
WakeUp ==
    /\ hp_pc = "sleep"
    /\ hp_pc' = "check"
    /\ UNCHANGED <<hp_li, hp_have_downloaded, hp_last_reload, hp_events,
                   hp_metadata, hp_nr_metadata, hp_camera_years, hp_logged>>
    /\ UNCHANGED <<envVars, cpVars, hubVars, lsVars, extVars>>

----------------------------------------------------------------------------
(* S3Client.list_objects, page by page *)

\* content["ETag"] as the store sends it: the hash between double quotes
ETag(hash) == <<"\"", hash, "\"">>

\* str.strip('"'): the text without its leading and trailing double quotes
RECURSIVE StripQuotes(_)
StripQuotes(text) ==
    IF text # <<>> /\ text[1] = "\"" THEN StripQuotes(Tail(text))
    ELSE IF text # <<>> /\ text[Len(text)] = "\""
    THEN StripQuotes(SubSeq(text, 1, Len(text) - 1))
    ELSE text

\* the text of a hash that holds no quote
HashText(parts) == IF Len(parts) = 1 THEN parts[1] ELSE ""

\* the entries a page may hold
ListedContents ==
    {[Key |-> Key("ts8", FirstDay, <<"monitor", s, "img.jpg">>),
      ETag |-> ETag("abc")] : s \in SeqStrings}

\* sequences of at most n elements of S
RECURSIVE SeqsUpTo(_, _)
SeqsUpTo(S, n) ==
    IF n = 0 THEN {<<>>}
    ELSE SeqsUpTo(S, n - 1)
            \cup {Append(q, x) : q \in SeqsUpTo(S, n - 1), x \in S}

\* the answers of the store to one listing: every response but the last
\* carries a NextContinuationToken (0 stands for its absence), and a response
\* may come without Contents
PagedListings ==
    LET pages == SeqsUpTo(SeqsUpTo(ListedContents, MaxPageSize), MaxListPages)
                    \ {<<>>}
    IN {[i \in 1..Len(p) |->
            [Contents |-> p[i],
             NextContinuationToken |-> IF i < Len(p) THEN i + 1 ELSE 0]] :
        p \in pages}

\* object["key"] = content["Key"]; object["hash"] = content["ETag"].strip('"')
ListedObject(content) ==
    [key |-> content.Key, hash |-> HashText(StripQuotes(content.ETag))]

\* objects = []; response = self._client.list_objects_v2(Bucket, Prefix)
ListObjectsCall ==
    /\ ls_pc = "idle"
    /\ \E pages \in PagedListings : ls_pages' = pages
    /\ ls_response' = 1
    /\ ls_requests' = 1
    /\ ls_objects' = <<>>
    /\ ls_pc' = "page"
    /\ UNCHANGED <<envVars, cpVars, hubVars, hpVars, extVars>>

\* a loop body that tests for the token before it reads the Contents
ListObjectsPage_break_first ==
    /\ ls_pc = "page"
    /\ LET response == ls_pages[ls_response]
       IN IF response.NextContinuationToken = 0
          THEN /\ ls_pc' = "done"
               /\ UNCHANGED <<ls_response, ls_requests, ls_objects>>
          ELSE /\ ls_objects' = ls_objects \o
                    [i \in 1..Len(response.Contents) |->
                        ListedObject(response.Contents[i])]
               /\ ls_response' = response.NextContinuationToken
               /\ ls_requests' = ls_requests + 1
               /\ ls_pc' = "page"
    /\ UNCHANGED ls_pages
    /\ UNCHANGED <<envVars, cpVars, hubVars, hpVars, extVars>>

\* one turn of the while loop: append the Contents of the response, then
\* break when it has no NextContinuationToken, else request the next page
ListObjectsPage ==
    /\ ls_pc = "page"
    /\ LET response == ls_pages[ls_response]
       IN /\ ls_objects' = ls_objects \o
                [i \in 1..Len(response.Contents) |->
                    ListedObject(response.Contents[i])]
          /\ IF response.NextContinuationToken = 0
             THEN /\ ls_pc' = "done"
                  /\ UNCHANGED <<ls_response, ls_requests>>
             ELSE /\ ls_response' = response.NextContinuationToken
                  /\ ls_requests' = ls_requests + 1
                  /\ ls_pc' = "page"
    /\ UNCHANGED ls_pages
    /\ UNCHANGED <<envVars, cpVars, hubVars, hpVars, extVars>>

----------------------------------------------------------------------------
(* The sieves of the two pollers, on one listing *)

\* the objects a listing of ts8 may hold
ListedObjects ==
    {[key |-> k, hash |-> "abc"] :
        k \in {d \in DepositKeys(FirstDay) : d.camera = "ts8"}}

\* the listings: at most MaxListed different objects, in any order
Listings ==
    {q \in SeqsUpTo(ListedObjects, MaxListed) :
        \A i, j \in DOMAIN q : i # j => q[i] # q[j]}

\* o["key"].find("night_report"): the index of the first occurrence, 0 when
\* the key begins with it, -1 when the key does not hold it
FindNightReport(key) ==
    IF key.camera = "night_report" THEN 0
    ELSE IF ContainsNightReport(key) THEN Len(key.camera) + 12
    ELSE -1

\* BucketPoller.filter_night_report_objects: the test of the comprehension is
\* the integer find() returns, which is true for every integer but 0
BucketPoller_filter_night_report_objects(objects) ==
    LET isReport(o) == FindNightReport(o.key) # 0
        notReport(o) == FindNightReport(o.key) = 0
    IN [reports |-> SelectSeq(objects, isReport),
        filtered |-> SelectSeq(objects, notReport)]

\* seive_out_metadata and seive_out_night_reports of CurrentPoller on one
\* listing: the metadata object, the night reports, and the list that goes
\* on to objects_to_events
CurrentPoller_sieves(objects) ==
    LET f == filter_camera_metadata_object(objects)
        n == filter_night_report_objects(f.objects)
    IN IF f.raised
       THEN [raised |-> TRUE, metadata |-> <<>>, reports |-> <<>>,
             events |-> <<>>]
       ELSE [raised |-> FALSE,
             metadata |-> IF f.md_obj = None THEN <<>> ELSE <<f.md_obj>>,
             reports |-> n.reports, events |-> n.filtered]

\* the same for BucketPoller, whose metadata sieve is the same code
BucketPoller_sieves(objects) ==
    LET f == filter_camera_metadata_object(objects)
        n == BucketPoller_filter_night_report_objects(f.objects)
    IN IF f.raised
       THEN [raised |-> TRUE, metadata |-> <<>>, reports |-> <<>>,
             events |-> <<>>]
       ELSE [raised |-> FALSE,
             metadata |-> IF f.md_obj = None THEN <<>> ELSE <<f.md_obj>>,
             reports |-> n.reports, events |-> n.filtered]

\* a listing returns and goes through the sieves
SieveListing(objects) ==
    /\ cl_objects' = objects
    /\ cl_current' = CurrentPoller_sieves(objects)
    /\ cl_bucket' = BucketPoller_sieves(objects)
    /\ UNCHANGED <<envVars, cpVars, hubVars, hpVars, lsVars, bcVars, lifeVars,
                   urlVars, pxVars>>

----------------------------------------------------------------------------
(* proxies: proxy_video *)

\* Texts are sequences of tokens; "_", "." and "=" are tokens of their own
\* and no other token holds one of them.

\* str.split(sep): the pieces of the text between the separators
RECURSIVE Split(_, _)
Split(text, sep) ==
    IF \A i \in DOMAIN text : text[i] # sep THEN <<text>>
    ELSE LET i == CHOOSE j \in DOMAIN text :
                      text[j] = sep /\ \A k \in 1..(j - 1) : text[k] # sep
         IN <<SubSeq(text, 1, i - 1)>>
                \o Split(SubSeq(text, i + 1, Len(text)), sep)

\* str.replace(old, ""): the text without the occurrences of old, taken from
\* left to right
RECURSIVE Remove(_, _)
Remove(text, old) ==
    IF Len(text) < Len(old) THEN text
    ELSE IF SubSeq(text, 1, Len(old)) = old
    THEN Remove(SubSeq(text, Len(old) + 1, Len(text)), old)
    ELSE <<text[1]>> \o Remove(Tail(text), old)

\* the filenames requests ask for: one of the form
\* {camera}_{channel}_{date}_{seq}.{ext}, one without a seq, one without an
\* extension, one with two extensions, and one of another camera
VideoFilenames(cam, chan) ==
    {<<cam, "_", chan, "_", "2024-01-15", "_", "000001", ".", "mp4">>,
     <<cam, "_", chan, "_", "2024-01-15", ".", "mp4">>,
     <<cam, "_", chan, "_", "2024-01-15", "_", "000001">>,
     <<cam, "_", chan, "_", "2024-01-15", "_", "000001", ".", "tar", ".", "gz">>,
     <<"other", "_", chan, "_", "2024-01-15", "_", "000001", ".", "mp4">>}

\* the values of the Range header: absent, a byte range, a text without "=",
\* and the empty text
RangeHeaders ==
    {None, [text |-> <<"bytes", "=", "0-99">>], [text |-> <<"bytes">>],
     [text |-> <<>>]}

\* the calls of the endpoint: path parameters, Range header, and whether the
\* store has the object
VideoRequests ==
    {[location_name |-> l, camera_name |-> c, channel_name |-> "movie",
      filename |-> f, range |-> r, found |-> d] :
        l \in {"slac", "nowhere"}, c \in {"ts8", "auxtel"},
        f \in VideoFilenames("ts8", "movie"), r \in RangeHeaders,
        d \in BOOLEAN}

\* raise HTTPException(404, detail)
HTTPException404(detail) ==
    [status_code |-> 404, detail |-> detail, content_type |-> "", s3_range |-> None]

\* `if range:` is true for a header that is present and not empty
Truthy(range) == "none" \notin DOMAIN range /\ range.text # <<>>

\* proxy_video
proxy_video(req) ==
    LET to_remove == <<req.camera_name, "_", req.channel_name, "_">>
        rest == Remove(req.filename, to_remove)
        parts == Split(rest, "_")
    IN IF Len(parts) # 2 THEN HTTPException404("Filename not valid.")
       ELSE IF Len(Split(parts[2], ".")) # 2
       THEN HTTPException404("Filename not valid.")
       ELSE IF req.location_name \notin LocationNames
       THEN HTTPException404("Location not found.")
       ELSE IF Truthy(req.range) /\ Len(Split(req.range.text, "=")) < 2
       THEN \* range.split("=")[1] raises IndexError, which nothing catches
            [status_code |-> 500, detail |-> "IndexError", content_type |-> "",
             s3_range |-> None]
       ELSE LET s3_range ==
                    IF Truthy(req.range)
                    THEN [text |-> <<"bytes", "=">>
                                      \o Split(req.range.text, "=")[2]]
                    ELSE None
            IN IF req.found
               THEN [status_code |-> IF Truthy(req.range) THEN 206 ELSE 200,
                     detail |-> "", content_type |-> "video/mp4",
                     s3_range |-> s3_range]
               ELSE HTTPException404("No data found.")

\* a request for the endpoint is answered
ProxyVideo(req) ==
    /\ px_request' = req
    /\ px_response' = proxy_video(req)
    /\ UNCHANGED <<envVars, cpVars, hubVars, hpVars, lsVars, bcVars, lifeVars,
                   urlVars, clVars>>

----------------------------------------------------------------------------
(* lifespan: start-up and shutdown of the application *)

\* the handler accepts a connection: clients[client_id] = websocket
OpenWebSocket(ws) ==
    /\ lf_pc = "serving"
    /\ ws \notin Range(lf_clients)
    /\ lf_clients' = Append(lf_clients, ws)
    /\ lf_open' = lf_open \cup {ws}
    /\ UNCHANGED <<lf_pc, today_polling, historical_polling, lf_i>>
    /\ UNCHANGED <<envVars, cpVars, hubVars, hpVars, lsVars, bcVars, urlVars,
                   pxVars, clVars>>

\* the code after the yield up to the first await: both tasks are cancelled,
\* and the loop over clients.values() begins
Shutdown ==
    /\ lf_pc = "serving"
    /\ historical_polling' = "cancelled"
    /\ today_polling' = "cancelled"
    /\ lf_pc' = IF lf_clients = <<>> THEN "stopped" ELSE "closing"
    /\ lf_i' = 0
    /\ UNCHANGED <<lf_clients, lf_open>>
    /\ UNCHANGED <<envVars, cpVars, hubVars, hpVars, lsVars, bcVars, urlVars,
                   pxVars, clVars>>

\* await c.close() for the next websocket of clients.values(): when it
\* returns the loop goes on, when it raises the exception leaves lifespan.
\* The websocket whose close was attempted counts as closed either way.
CloseNext(raises) ==
    /\ lf_pc = "closing"
    /\ lf_open' = lf_open \ {lf_clients[lf_i + 1]}
    /\ lf_i' = lf_i + 1
    /\ lf_pc' = IF raises THEN "failed"
                ELSE IF lf_i + 1 = Len(lf_clients) THEN "stopped"
                ELSE "closing"
    /\ UNCHANGED <<today_polling, historical_polling, lf_clients>>
    /\ UNCHANGED <<envVars, cpVars, hubVars, hpVars, lsVars, bcVars, urlVars,
                   pxVars, clVars>>

----------------------------------------------------------------------------
(* Specifications *)

EmptyDict == [x \in {} |-> None]

\* CurrentPoller.__init__: every channel of every camera has no current event
InitChannels ==
    [k \in UNION {UNION {{LocCamChan(l, c, ch) : ch \in Range(ChannelsOf(c))} :
                            c \in Range(CamerasOf(l))} : l \in LocationNames}
        |-> None]

\* CurrentPoller(locations) is constructed once more while the first instance
\* runs: _clients and _channels are attributes of the class, so __init__
\* writes None for every channel into the dict the first instance reads
ConstructCurrentPoller ==
    /\ cp_channels' = InitChannels
    /\ cp_url' = {}
    /\ unchanged_polls' = IF cp_pc = "day" THEN 0 ELSE -1
    /\ UNCHANGED <<cp_pc, cp_exception, cp_li, cp_ci, current_day_obs,
                   cp_objects, cp_metadata, sent>>
    /\ UNCHANGED <<envVars, hubVars, hpVars, lsVars, bcVars, lifeVars, pxVars,
                   clVars>>

Init ==
    /\ today = FirstDay
    /\ bucket = [l \in LocationNames |-> {}]
    /\ puts = 0
    /\ cp_pc = "day"
    /\ cp_exception = ""
    /\ cp_li = 1
    /\ cp_ci = 1
    /\ current_day_obs = FirstDay
    /\ cp_objects = EmptyDict
    /\ cp_metadata = EmptyDict
    /\ cp_channels = InitChannels
    /\ sent = <<>>
    /\ unchanged_polls = 0
    /\ connected_clients = <<>>
    /\ ws_ignored = {}
    /\ hp_pc = "check"
    /\ hp_li = 1
    /\ hp_have_downloaded = FALSE
    /\ hp_last_reload = FirstDay
    /\ hp_events = EmptyDict
    /\ hp_metadata = EmptyDict
    /\ hp_nr_metadata = EmptyDict
    /\ hp_camera_years = EmptyDict
    /\ hp_logged = {}
    /\ ls_pc = "idle"
    /\ ls_pages = <<>>
    /\ ls_response = 0
    /\ ls_requests = 0
    /\ ls_objects = <<>>
    /\ bc_pc = "idle"
    /\ bc_stamp = 0
    /\ bc_target = ""
    /\ bc_ws = 0
    /\ bc_pos = 0
    /\ bc_used = 0
    /\ bc_len = 0
    /\ bc_inbox = [ws \in WebSockets |-> <<>>]
    /\ bc_steady = {}
    /\ lf_pc = "serving"
    /\ today_polling = "running"
    /\ historical_polling = "running"
    /\ lf_clients = <<>>
    /\ lf_open = {}
    /\ lf_i = 0
    /\ cp_url = {}
    /\ px_request = None
    /\ px_response = None
    /\ cl_objects = <<>>
    /\ cl_current = None
    /\ cl_bucket = None

\* the environment: cameras deposit objects, the day rolls over
Deposit ==
    \E loc \in LocationNames : \E obj \in Deposits(loc, today) :
        PutObject(loc, obj)

\* the cameras deposit objects under keys not written before; every object
\* is in its first version
DepositNewKey ==
    \E loc \in LocationNames : \E obj \in Deposits(loc, today) :
        /\ obj.hash = "abc"
        /\ \A o \in bucket[loc] : o.key # obj.key
        /\ PutObject(loc, obj)

\* the movie channel of ts8 receives a record, numbered or final, for today
DepositMovie ==
    \E s \in MovieSeqStrings :
        LET obj == [key |-> Key("ts8", today, <<"movie", s, "movie.mp4">>),
                    hash |-> "abc"]
        IN /\ puts < MaxPuts
           /\ obj \notin bucket["slac"]
           /\ bucket' = [bucket EXCEPT !["slac"] = @ \cup {obj}]
           /\ puts' = puts + 1
           /\ today' = today
           /\ unchanged_polls' = IF cp_pc = "day" THEN 0 ELSE -1
           /\ UNCHANGED <<cp_pc, cp_exception, cp_li, cp_ci, current_day_obs,
                          cp_objects, cp_metadata, cp_channels, sent>>
           /\ UNCHANGED <<hubVars, hpVars, lsVars, extVars>>

\* the current-day poller's task
Poll ==
    \/ GetCurrentDayObs
    \/ SkipOfflineCamera
    \/ \E outcome \in GetObjectOutcomes :
          \E failing \in SUBSET {c.ws : c \in Range(connected_clients)} :
              PollCamera(outcome, failing)
    \/ Sleep

\* requests whose target does not resolve: an unknown location, a camera of
\* another location, a channel the camera does not have
UnresolvedRequests ==
    {[kind |-> "camera", loc |-> "nowhere", cam |-> "ts8", chan |-> ""],
     [kind |-> "camera", loc |-> "slac", cam |-> "auxtel", chan |-> ""],
     [kind |-> "channel", loc |-> "summit", cam |-> "auxtel", chan |-> "movie"]}

\* the handler logs a request that fails the validation and goes on
IgnoreRequest(ws, req) ==
    /\ ~IsValidRequest(req)
    /\ ws_ignored' = {req}
    /\ UNCHANGED connected_clients
    /\ UNCHANGED <<envVars, cpVars, hpVars, lsVars, extVars>>

\* the handler receives a request on a websocket
HandleRequest ==
    \E ws \in WebSockets : \E req \in ClientRequests \cup UnresolvedRequests :
        Subscribe(ws, req) \/ IgnoreRequest(ws, req)

CloseWebSocket == \E ws \in WebSockets : Disconnect(ws)

\* the websocket clients
Clients ==
    \/ \E ws \in WebSockets : \E req \in ClientRequests : Subscribe(ws, req)
    \/ \E ws \in WebSockets : Disconnect(ws)

\* the historical poller's task
Historical ==
    \/ CheckForNewDay
    \/ RefreshLocationStore
    \/ RefreshLocationStoreRaises
    \/ FinishReload
    \/ WakeUp

Next == Deposit \/ DayRollover \/ Poll \/ Clients \/ Historical

Spec == Init /\ [][Next]_vars

\* the current-day poller over a store the cameras deposit in, within one day
NextPoller == Deposit \/ Poll

SpecPoller == Init /\ [][NextPoller]_vars

\* the current-day poller over a store whose objects are deposited and then
\* overwritten, within one day
NextOverwrite ==
    \/ Deposit
    \/ \E loc \in LocationNames : \E obj \in Deposits(loc, today) :
          OverwriteObject(loc, obj)
    \/ Poll

SpecOverwrite == Init /\ [][NextOverwrite]_vars

\* the current-day poller while a second CurrentPoller is constructed, with
\* at most MaxServicePuts deposits
NextInstances ==
    (puts < MaxServicePuts /\ Deposit) \/ Poll \/ ConstructCurrentPoller

SpecInstances == Init /\ [][NextInstances]_vars

\* the current-day poller and the websocket clients it notifies, within one day
\* and with at most MaxServicePuts deposits
NextService == (puts < MaxServicePuts /\ Deposit) \/ Poll \/ Clients

SpecService == Init /\ [][NextService]_vars

\* the historical poller across day rollovers
NextHistorical == DepositNewKey \/ DayRollover \/ Historical

SpecHistorical == Init /\ [][NextHistorical]_vars

\* both pollers over the same store within one day, with at most
\* MaxServicePuts deposits
NextPollers ==
    (puts < MaxServicePuts /\ DepositNewKey) \/ Poll \/ Historical

SpecPollers == Init /\ [][NextPollers]_vars

\* The CurrentPoller task across a change of the observation day: the bucket
\* receives one object, on either day.
NextRollover == (puts < MaxServicePuts /\ Deposit) \/ DayRollover \/ Poll

SpecRollover == Init /\ [][NextRollover]_vars

\* The HistoricalPoller task over a store whose ts8 movie channel receives
\* numbered and final records.
NextMovies == DepositMovie \/ Historical

SpecMovies == Init /\ [][NextMovies]_vars

\* The websocket handler alone: clients send requests, resolvable or not,
\* and close their connections.
NextRequests == HandleRequest \/ CloseWebSocket

SpecRequests == Init /\ [][NextRequests]_vars

\* the poller's notifications, send by send, with clients that subscribe,
\* unsubscribe and disconnect while a send is awaited; the clients ask for
\* the ids the messages are for
NextBroadcast ==
    \/ \E target \in BroadcastTargets : BroadcastStart(target)
    \/ SendReturns
    \/ \E ws \in WebSockets : \E req \in ClientRequests :
          /\ RequestTarget(req) \in BroadcastTargets
          /\ Subscribe(ws, req)
    \/ CloseWebSocket

SpecBroadcast == Init /\ [][NextBroadcast]_vars

\* the poller with requests for the current event of a channel that arrive
\* between two of its iterations
NextCurrentEvent ==
    \/ (puts < MaxServicePuts /\ Deposit)
    \/ Poll
    \/ \E lookup \in DOMAIN cp_channels :
          cp_pc = "day" /\ GetCurrentChannelEvent(lookup)

SpecCurrentEvent == Init /\ [][NextCurrentEvent]_vars

\* listings going through the sieves of the pollers
NextSieves == \E objects \in Listings : SieveListing(objects)

SpecSieves == Init /\ [][NextSieves]_vars

\* the video proxy answering requests
NextProxy == \E req \in VideoRequests : ProxyVideo(req)

SpecProxy == Init /\ [][NextProxy]_vars

\* the application from start-up to shutdown: the two tasks run until they
\* are cancelled, connections are accepted until the shutdown begins
NextShutdown ==
    \/ (today_polling = "running" /\ Poll)
    \/ (historical_polling = "running" /\ Historical)
    \/ \E ws \in WebSockets : OpenWebSocket(ws)
    \/ Shutdown
    \/ \E raises \in BOOLEAN : CloseNext(raises)

SpecShutdown == Init /\ [][NextShutdown]_vars

\* the same notifications with clients that all ask for the one camera
NextDelivery ==
    \/ \E target \in BroadcastTargets : BroadcastStart(target)
    \/ SendReturns
    \/ \E ws \in WebSockets : \E req \in ClientRequests :
          /\ req.kind = "camera"
          /\ RequestTarget(req) \in BroadcastTargets
          /\ Subscribe(ws, req)
    \/ CloseWebSocket

SpecDelivery == Init /\ [][NextDelivery]_vars

\* One call of S3Client.list_objects against a store that pages its answer;
\* the call keeps running until it returns.
NextListing == ListObjectsCall \/ ListObjectsPage

SpecListing == Init /\ [][NextListing]_vars /\ WF_vars(NextListing)

----------------------------------------------------------------------------
(* Properties of the current-day poller *)

\* the step the poll task takes through the loop body of one online camera
PollStep ==
    /\ AtCamera
    /\ Online(CamerasOf(Locations[cp_li])[cp_ci])
    /\ (cp_ci' = cp_ci + 1 \/ cp_pc' = "dead")

\* the events stored in the bucket for one channel of a camera on the day the
\* poller is looking at
TodaysEvents(loc, cam, chan) ==
    {Event(o) : o \in {x \in bucket[loc] :
                          /\ x.key.camera = cam
                          /\ x.key.day = current_day_obs
                          /\ IsEventKey(x.key)
                          /\ x.key.path[1] = chan}}

\* the metadata objects stored for a camera on the day the poller is looking at
TodaysMetadata(loc, cam) ==
    {x \in bucket[loc] : /\ x.key.camera = cam
                         /\ x.key.day = current_day_obs
                         /\ EndsWithMetadataJson(x.key)}

\* the websockets subscribed to (kind, target)
Subscribers(kind, target) ==
    {c.ws : c \in {x \in Range(connected_clients) :
                      x.kind = kind /\ x.target = target}}

\* C1: a poll iteration that runs after a complete iteration over the same
\* bucket contents delivers no message of any kind
C1_SecondPollIsSilent ==
    (cp_pc = "camera" /\ unchanged_polls >= 1)
        => \A i \in 1..Len(sent) : sent[i].to = <<>>

\* C2: every camera broadcast on loc/cam and every channel broadcast on
\* loc/cam/chan whose sends all return is delivered to exactly the clients
\* subscribed to that kind and that target
C2_FanOutExact ==
    [][PollStep =>
        \A i \in 1..Len(sent') :
            (sent'[i].msg \in {"camera", "channel"} /\ sent'[i].failed = <<>>)
                => Range(sent'[i].to)
                       = Subscribers(sent'[i].msg, sent'[i].target)]_vars

\* C3: after every poll iteration over a settled bucket the cached current
\* event of every channel of an online camera is the event with the highest
\* seq_num among today's events of the channel, in whatever order the
\* listings came
C3_CurrentIsMaxSeq ==
    (cp_pc = "day" /\ unchanged_polls >= 1) =>
        \A loc \in LocationNames : \A cam \in Range(CamerasOf(loc)) :
            \A chan \in Range(ChannelsOf(cam)) :
                LET evs == TodaysEvents(loc, cam, chan)
                    cur == cp_channels[LocCamChan(loc, cam, chan)]
                IN (Online(cam) /\ evs # {}) =>
                      /\ cur \in evs
                      /\ \A e \in evs : e.seq_num <= cur.seq_num

\* C4: a camera pass whose day listing holds more than one metadata.json
\* object emits no metadata broadcast and leaves the poll task running
C4_TwoMetadataFilesSkipped ==
    [][(/\ PollStep
        /\ Cardinality(TodaysMetadata(Locations[cp_li],
                           CamerasOf(Locations[cp_li])[cp_ci])) > 1
        /\ cp_exception' # "ListingError")
       => /\ cp_pc' = "camera"
          /\ \A i \in 1..Len(sent') : sent'[i].msg # "metadata"]_vars

\* C5: a listing failure or a metadata fetch error in one camera's pass never
\* ends the poll task
C5_CameraErrorsSkipped ==
    cp_exception \in {"ListingError", "FetchError"} => cp_pc # "dead"

\* the place of a message kind in the order of one camera's messages
Rank(msg) ==
    CASE msg = "metadata" -> 1
      [] msg = "channel" -> 2
      [] msg = "camera" -> 3

\* C6: among the messages one camera's pass emits, the metadata broadcast comes
\* before every channel broadcast and every channel broadcast before the
\* camera aggregate
C6_MessageOrder ==
    \A i, j \in 1..Len(sent) :
        i < j => /\ Rank(sent[i].msg) <= Rank(sent[j].msg)
                 /\ sent[i].msg # "camera"

\* C6 witness: one camera's pass has emitted a metadata, a channel and a
\* camera broadcast
C6_Witness ==
    /\ \E i \in 1..Len(sent) : sent[i].msg = "metadata"
    /\ \E i \in 1..Len(sent) : sent[i].msg = "channel"
    /\ \E i \in 1..Len(sent) : sent[i].msg = "camera"

\* C7: a camera pass whose listing returns, over a bucket holding an event of
\* today for a channel with no cached current event, stores an event of the
\* channel as current and emits a channel broadcast carrying it and a camera
\* broadcast containing it
C7_FirstEventStoredAndBroadcast ==
    [][(PollStep /\ cp_exception' # "ListingError") =>
        LET loc == Locations[cp_li]
            cam == CamerasOf(loc)[cp_ci]
        IN \A chan \in Range(ChannelsOf(cam)) :
             LET k == LocCamChan(loc, cam, chan)
             IN (TodaysEvents(loc, cam, chan) # {} /\ cp_channels[k] = None)
                 => /\ cp_channels'[k] \in TodaysEvents(loc, cam, chan)
                    /\ \E i \in 1..Len(sent') :
                         /\ sent'[i].msg = "channel"
                         /\ sent'[i].target = k
                         /\ sent'[i].body = cp_channels'[k]
                    /\ \E i \in 1..Len(sent') :
                         /\ sent'[i].msg = "camera"
                         /\ sent'[i].target = LocCam(loc, cam)
                         /\ sent'[i].body # None
                         /\ cp_channels'[k] \in Range(sent'[i].body.events)]_vars

\* C8: when a send to a subscriber raises during a broadcast, the poll task
\* goes on to the next camera and that client is no longer connected
C8_FailedSendDropsClientOnly ==
    [][PollStep =>
        \A i \in 1..Len(sent') : \A ws \in Range(sent'[i].failed) :
            /\ cp_pc' = "camera"
            /\ ws \notin {c.ws : c \in Range(connected_clients')}]_vars

\* C9: when a send to a client raises during a broadcast, that client's
\* subscription is removed and every other subscriber of the broadcast is
\* sent the message
C9_FailedSendIsDisconnect ==
    [][PollStep =>
        \A i \in 1..Len(sent') : \A ws \in Range(sent'[i].failed) :
            /\ ws \notin {c.ws : c \in Range(connected_clients')}
            /\ Subscribers("camera", sent'[i].target) \ {ws}
                   \subseteq Range(sent'[i].to)]_vars

----------------------------------------------------------------------------
(* Properties of the historical poller *)

\* C10: once the day has advanced past the last historical load, the next
\* wake-up of check_for_new_day starts a full rebuild
C10_RebuildAfterRollover ==
    [][(/\ hp_pc = "check"
        /\ hp_have_downloaded
        /\ today > hp_last_reload
        /\ hp_pc' # hp_pc)
       => hp_pc' = "refresh"]_vars

HistoricalSnapshot(loc) ==
    LET entry(d) == IF loc \in DOMAIN d THEN <<d[loc]>> ELSE <<>>
    IN [events |-> entry(hp_events), metadata |-> entry(hp_metadata),
        nr_metadata |-> entry(hp_nr_metadata),
        camera_years |-> entry(hp_camera_years)]

\* C12: a refresh of a location in which the listing of one of its cameras
\* failed, while the bucket holds objects of that camera, leaves the
\* location's snapshot as it was
C12_FailedRefreshKeepsSnapshot ==
    [][(/\ hp_pc = "refresh"
        /\ hp_li <= Len(Locations)
        /\ hp_li' = hp_li + 1
        /\ \E o \in bucket[Locations[hp_li]] : o.key.camera \in hp_logged')
       => \A loc \in LocationNames :
              loc = Locations[hp_li]
                  => HistoricalSnapshot(loc)' = HistoricalSnapshot(loc)]_vars


\* the stored objects behind the events, metadata objects and night reports
\* of a location's snapshot
SnapshotObjects(loc) ==
    {[key |-> x.key, hash |-> x.hash] :
        x \in Range(hp_events[loc]) \cup Range(hp_metadata[loc])
                 \cup Range(hp_nr_metadata[loc])}

C14_CalendarDaysHaveEvents ==
    \A loc \in DOMAIN hp_events : \A cam \in Range(CamerasOf(loc)) :
        \A d \in FirstDay..(FirstDay + MaxRollovers) :
            LET days == get_days_for_month_and_year(loc, cam, MonthOf(d),
                                                    YearOf(d))
            IN \A i \in 1..Len(days) :
                 LET a_date == YearOf(d) * 10000 + MonthOf(d) * 100
                                   + days[i][1]
                     evs == get_events_for_date(loc, cam, a_date)
                 IN \E ch \in DOMAIN evs : evs[ch] # <<>>


TodaysObjects(loc, cam) ==
    {x \in bucket[loc] : x.key.camera = cam /\ x.key.day = current_day_obs}

\* C16: a camera pass whose listing returns and is empty delivers no message
\* to any client
C16_EmptyListingIsSilent ==
    [][(/\ PollStep
        /\ TodaysObjects(Locations[cp_li],
                         CamerasOf(Locations[cp_li])[cp_ci]) = {}
        /\ cp_exception' # "ListingError")
       => \A i \in 1..Len(sent') : sent'[i].to = <<>>]_vars


\* C17: a camera pass whose listing returns with a single metadata object
\* that the poller has not cached the JSON of stores that JSON for the camera
\* and emits a metadata message carrying exactly it; a pass over a metadata
\* object whose JSON is cached emits no metadata message
C17_MetadataStoredAndBroadcast ==
    [][(PollStep /\ cp_exception' # "ListingError") =>
        LET loc == Locations[cp_li]
            cam == CamerasOf(loc)[cp_ci]
            k == LocCam(loc, cam)
        IN \A md \in TodaysMetadata(loc, cam) :
             Cardinality(TodaysMetadata(loc, cam)) = 1 =>
                IF k \in DOMAIN cp_metadata /\ cp_metadata[k] = JsonOf(md)
                THEN \A i \in 1..Len(sent') : sent'[i].msg # "metadata"
                ELSE /\ k \in DOMAIN cp_metadata'
                     /\ cp_metadata'[k] = JsonOf(md)
                     /\ \E i \in 1..Len(sent') :
                          /\ sent'[i].msg = "metadata"
                          /\ sent'[i].target = k
                          /\ sent'[i].body = JsonOf(md)]_vars


\* the night-report objects stored for a camera on the day the poller is
\* looking at
TodaysNightReports(loc, cam) ==
    {x \in TodaysObjects(loc, cam) : ContainsNightReport(x.key)}

\* C18: a camera pass that runs to its end over a listing with a night-report
\* object emits a night-report message for the camera
C18_NightReportBroadcast ==
    [][(/\ PollStep
        /\ cp_exception' = ""
        /\ TodaysNightReports(Locations[cp_li],
                              CamerasOf(Locations[cp_li])[cp_ci]) # {})
       => \E i \in 1..Len(sent') :
            /\ sent'[i].msg = "night_report"
            /\ sent'[i].target
                  = LocCam(Locations[cp_li], CamerasOf(Locations[cp_li])[cp_ci])]_vars


\* the channel-event objects stored for a camera on the day the poller is
\* looking at: what remains of the listing once the metadata and night-report
\* objects are taken out
TodaysChannelObjects(loc, cam) ==
    {x \in TodaysObjects(loc, cam) :
        ~EndsWithMetadataJson(x.key) /\ ~ContainsNightReport(x.key)}

\* C19: once the poller has run a whole iteration after the observation day
\* changed, its cached objects and current events are all of the new day and
\* it holds metadata only for cameras with a metadata object on the new day
C19_RolloverDropsState ==
    (cp_pc = "day" /\ unchanged_polls >= 1) =>
        /\ \A k \in DOMAIN cp_objects : \A i \in DOMAIN cp_objects[k] :
              cp_objects[k][i].key.day = today
        /\ \A k \in DOMAIN cp_channels :
              "none" \notin DOMAIN cp_channels[k]
                  => cp_channels[k].day_obs = today
        /\ \A loc \in LocationNames : \A cam \in Range(CamerasOf(loc)) :
              LocCam(loc, cam) \in DOMAIN cp_metadata
                  => TodaysMetadata(loc, cam) # {}

\* C20: once the poller has run a whole iteration over an unchanged store, the
\* keys of its object cache are the online cameras with a channel-event object
\* today and each entry holds exactly that camera's channel-event objects
C20_CacheIsTodaysChannelObjects ==
    (cp_pc = "day" /\ unchanged_polls >= 1) =>
        /\ DOMAIN cp_objects =
              UNION {{LocCam(loc, cam) : cam \in
                        {c \in Range(CamerasOf(loc)) :
                            Online(c) /\ TodaysChannelObjects(loc, c) # {}}} :
                     loc \in LocationNames}
        /\ \A loc \in LocationNames : \A cam \in Range(CamerasOf(loc)) :
              LocCam(loc, cam) \in DOMAIN cp_objects
                  => /\ Range(cp_objects[LocCam(loc, cam)])
                          = TodaysChannelObjects(loc, cam)
                     /\ Len(cp_objects[LocCam(loc, cam)])
                          = Cardinality(TodaysChannelObjects(loc, cam))


\* C21: for a camera with events in the snapshot, get_most_recent_day returns
\* the latest day on which the camera has an event
C21_MostRecentDayIsLatest ==
    \A loc \in DOMAIN hp_events : \A cam \in Range(CamerasOf(loc)) :
        events_of_camera(loc, cam) # <<>> =>
            /\ \E e \in Range(events_of_camera(loc, cam)) :
                  e.day_obs = get_most_recent_day(loc, cam)
            /\ \A e \in Range(events_of_camera(loc, cam)) :
                  e.day_obs <= get_most_recent_day(loc, cam)


\* the days on which the store may hold objects
Days == FirstDay..(FirstDay + MaxRollovers)

\* the snapshot's events of a camera, a day and a channel
SnapshotEvents(loc, cam, a_date, chan) ==
    {e \in Range(hp_events[loc]) :
        e.camera_name = cam /\ e.day_obs = a_date /\ e.channel_name = chan}

\* C22: get_events_for_date returns a map whose keys are the camera's channels
\* and each channel's list holds, once each, the snapshot's events of that
\* camera, day and channel; a channel without events has the empty list
C22_EventsForDateKeyedByChannel ==
    \A loc \in DOMAIN hp_events : \A cam \in Range(CamerasOf(loc)) :
        \A d \in Days :
            LET evs == get_events_for_date(loc, cam, d)
            IN /\ DOMAIN evs = Range(ChannelsOf(cam))
               /\ \A ch \in Range(ChannelsOf(cam)) :
                    /\ Range(evs[ch]) = SnapshotEvents(loc, cam, d, ch)
                    /\ Len(evs[ch]) = Cardinality(SnapshotEvents(loc, cam, d, ch))

\* the build has stored a day of ts8 with events of one channel and none of
\* the other
C22_Witness ==
    /\ "slac" \in DOMAIN hp_events
    /\ \E d \in Days :
          /\ SnapshotEvents("slac", "ts8", d, "monitor") # {}
          /\ SnapshotEvents("slac", "ts8", d, "movie") = {}
          /\ get_events_for_date("slac", "ts8", d)["movie"] = <<>>

\* C23: in the result of get_events_for_date each channel's list is in
\* descending order of seq_num
C23_EventsForDateDescending ==
    \A loc \in DOMAIN hp_events : \A cam \in Range(CamerasOf(loc)) :
        \A d \in Days :
            LET evs == get_events_for_date(loc, cam, d)
            IN \A ch \in DOMAIN evs :
                 \A i \in DOMAIN evs[ch] : \A j \in DOMAIN evs[ch] :
                    i < j => evs[ch][i].seq_num >= evs[ch][j].seq_num

\* C24: get_most_recent_event returns None for a channel without an event in
\* the snapshot, and otherwise an event of the channel whose seq_num no other
\* event of the channel exceeds
C24_MostRecentEventIsHighestSeq ==
    \A loc \in DOMAIN hp_events : \A cam \in Range(CamerasOf(loc)) :
        \A ch \in Range(ChannelsOf(cam)) :
            LET all == UNION {SnapshotEvents(loc, cam, d, ch) : d \in Days}
                ev == get_most_recent_event(loc, cam, ch)
            IN IF all = {} THEN ev = None
               ELSE /\ ev \in all
                    /\ \A e \in all : e.seq_num <= ev.seq_num


\* the events in the rows of a table
RowEvents(rows) ==
    UNION {{rows[i].row[ch] : ch \in DOMAIN rows[i].row} : i \in DOMAIN rows}

\* what the bucket holds today for a camera: the events of its channels and
\* whether there is a metadata object
TodaysChannelEvents(loc, cam) ==
    {Event(o) : o \in {x \in bucket[loc] :
                          /\ x.key.camera = cam
                          /\ x.key.day = today
                          /\ IsEventKey(x.key)
                          /\ x.key.path[1] \in Range(ChannelsOf(cam))}}

TodayHasMetadata(loc, cam) ==
    \E o \in bucket[loc] : /\ o.key.camera = cam
                            /\ o.key.day = today
                            /\ o.key.path = <<"metadata.json">>

RECURSIVE PagesFlattened(_, _)
PagesFlattened(pages, i) ==
    IF i > Len(pages) THEN <<>>
    ELSE [j \in 1..Len(pages[i].Contents) |->
             [key |-> pages[i].Contents[j].Key,
              hash |-> pages[i].Contents[j].ETag[2]]]
         \o PagesFlattened(pages, i + 1)

\* C26: a list_objects call returns, and when it has returned it has made one
\* request per page up to the first page without a continuation token and
\* holds the (key, hash) pair of every entry of every page, once each and in
\* page order
C26_ListObjectsPaginates ==
    /\ <>(ls_pc = "done")
    /\ [](ls_pc = "done" =>
            /\ ls_requests = Len(ls_pages)
            /\ ls_objects = PagesFlattened(ls_pages, 1))

\* a call has returned the two distinct entries of its second page after a
\* first page that had a continuation token and no entry
C26_Witness ==
    /\ ls_pc = "done"
    /\ Len(ls_pages) = 2
    /\ ls_requests = 2
    /\ ls_pages[1].Contents = <<>>
    /\ Len(ls_objects) = 2
    /\ ls_objects[1] # ls_objects[2]


\* C27: the JSON fetch of a stored object returns the decoded object when the
\* store sends the body, returns None when the store says NoSuchKey, and
\* raises on every other error of the client or the transport
C27_FetchNullOnlyOnNotFound ==
    \A loc \in LocationNames : \A o \in bucket[loc] :
        \A answer \in StoreAnswers :
            LET r == S3Client_get_object(o, answer)
            IN /\ answer = "body" => (~r.raised /\ r.data = JsonOf(o))
               /\ answer = "NoSuchKey"
                    => (~r.raised /\ "none" \in DOMAIN r.data)
               /\ answer \notin {"body", "NoSuchKey"} => r.raised


\* C28: when a camera's events of a day include a final record, the maximum
\* seq of the day is the one of the final record and the event max() selects
\* as most recent is the final record
C28_FinalOrdersAboveIntegers ==
    \A loc \in DOMAIN hp_events : \A cam \in Range(CamerasOf(loc)) :
        (\E e \in Range(camera_events(loc, cam, today)) :
             e.key.path[2] = "final")
            => /\ get_max_seq_for_date(loc, cam, today) = FinalSeq
               /\ most_recent(loc, cam).key.path[2] = "final"


\* the subscription targets that resolve against the fixtures, by kind
ResolvedTargets(kind) ==
    IF kind = "channel"
    THEN UNION {UNION {{LocCamChan(l, c, ch) : ch \in Range(ChannelsOf(c))} :
                         c \in {x \in Range(CamerasOf(l)) : Online(x)}} :
                  l \in LocationNames}
    ELSE UNION {{LocCam(l, c) : c \in {x \in Range(CamerasOf(l)) : Online(x)}} :
                  l \in LocationNames}

\* C29: a step of the handler puts a subscription in the table only when its
\* target resolves (location, online camera of the location, channel of the
\* camera), and a step that ignores a request leaves the table as it was
C29_OnlyResolvedSubscriptions ==
    [][/\ \A c \in Range(connected_clients') \ Range(connected_clients) :
             c.target \in ResolvedTargets(c.kind)
       /\ ws_ignored' # ws_ignored =>
             /\ connected_clients' = connected_clients
             /\ \A req \in ws_ignored' :
                   RequestTarget(req) \notin ResolvedTargets(req.kind)]_vars

\* a client holds a subscription and the handler has ignored a request for a
\* channel the camera does not have
C29_Witness ==
    /\ connected_clients # <<>>
    /\ \E req \in ws_ignored : req.kind = "channel" /\ req.chan = "movie"


\* C30: a client that holds a camera subscription and stays connected while
\* the handler takes a step, a further subscribe of its own included, is still
\* sent the camera broadcasts of that subscription
C30_SubscriptionsAccumulate ==
    [][\A c \in Range(connected_clients) :
          (c.kind = "camera"
             /\ \E d \in Range(connected_clients') : d.ws = c.ws)
            => c.ws \in Range(notify_camera_update(connected_clients',
                                                   c.target, {}).to)]_vars


C38_BroadcastSurvivesClients ==
    [][(bc_pc = "sending" /\ bc_pc' # "sending")
         => /\ bc_pc' # "raised"
            /\ \A ws \in bc_steady :
                  Cardinality({i \in DOMAIN bc_inbox'[ws] :
                                  bc_inbox'[ws][i] = bc_stamp}) = 1]_vars

\* C32: once the shutdown has begun neither poller takes another step, and
\* when the shutdown code has ended, normally or with the exception of a
\* close, no websocket is left open
C32_ShutdownStopsTasksAndClosesSockets ==
    [][/\ lf_pc # "serving" => (cpVars' = cpVars /\ hpVars' = hpVars)
       /\ lf_pc' \in {"stopped", "failed"} => lf_open' = {}]_vars

ValidVideoRequest(req) ==
    /\ req.filename = <<req.camera_name, "_", req.channel_name, "_",
                        "2024-01-15", "_", "000001", ".", "mp4">>
    /\ req.location_name \in LocationNames

\* C34: a request with an invalid filename or an unknown location is answered
\* 404; a request for an object the store has is answered 206 when it carries
\* a Range header with a value, 200 when it carries none or an empty one, and
\* in both cases with content type video/mp4; a byte range is forwarded to
\* the store as it came
C34_VideoProxyStatus ==
    "none" \notin DOMAIN px_request =>
        IF ~ValidVideoRequest(px_request)
        THEN px_response.status_code = 404
        ELSE px_request.found =>
                /\ px_response.content_type = "video/mp4"
                /\ IF \/ "none" \in DOMAIN px_request.range
                      \/ px_request.range.text = <<>>
                   THEN px_response.status_code = 200
                   ELSE /\ px_response.status_code = 206
                        /\ px_request.range.text[1] = "bytes"
                              => px_response.s3_range = px_request.range

\* the three classes of a listing: the objects whose key ends with
\* metadata.json, of the others those whose key holds night_report, and the
\* rest, each in the order of the listing
ClassesOf(objects) ==
    LET isMd(o) == EndsWithMetadataJson(o.key)
        isNr(o) == ~isMd(o) /\ ContainsNightReport(o.key)
        isEv(o) == ~isMd(o) /\ ~ContainsNightReport(o.key)
    IN [raised |-> FALSE, metadata |-> SelectSeq(objects, isMd),
        reports |-> SelectSeq(objects, isNr), events |-> SelectSeq(objects, isEv)]

\* C35: the sieves of either poller put every object of a listing in its
\* class, and the objects that are neither metadata nor night report are the
\* list that is converted to Events
C35_EveryObjectInItsClass ==
    "none" \notin DOMAIN cl_current =>
        /\ cl_current = ClassesOf(cl_objects)
        /\ cl_bucket = ClassesOf(cl_objects)

\* C36: a camera pass whose listing returns, over a bucket where the object
\* behind a channel's cached current event has been overwritten (same key,
\* another hash) and is the channel's only event of the day, stores the event
\* of the new (key, hash) as current and emits a channel broadcast carrying it
C36_OverwrittenObjectReplacesCurrent ==
    [][(PollStep /\ cp_exception' # "ListingError") =>
        LET loc == Locations[cp_li]
            cam == CamerasOf(loc)[cp_ci]
        IN \A chan \in Range(ChannelsOf(cam)) :
             LET k == LocCamChan(loc, cam, chan)
                 cur == cp_channels[k]
             IN \A e \in TodaysEvents(loc, cam, chan) :
                  (/\ "none" \notin DOMAIN cur
                   /\ TodaysEvents(loc, cam, chan) = {e}
                   /\ e.key = cur.key
                   /\ e.hash # cur.hash)
                  => /\ cp_channels'[k] = e
                     /\ \E i \in 1..Len(sent') :
                          /\ sent'[i].msg = "channel"
                          /\ sent'[i].target = k
                          /\ sent'[i].body = e]_vars

\* the days of a month and year on which a camera has an event in the snapshot
EventDays(loc, cam, month, year) ==
    {e.day_obs : e \in {x \in Range(hp_events[loc]) :
                           /\ x.camera_name = cam
                           /\ YearOf(x.day_obs) = year
                           /\ MonthOf(x.day_obs) = month}}

\* the list holds one (day, max_seq) pair for each day of EventDays, in
\* ascending order of day, max_seq being the largest seq_num of the camera's
\* events of the day
IsDayList(list, loc, cam, month, year) ==
    /\ {year * 10000 + month * 100 + list[i][1] : i \in DOMAIN list}
           = EventDays(loc, cam, month, year)
    /\ \A i, j \in DOMAIN list : i < j => list[i][1] < list[j][1]
    /\ \A i \in DOMAIN list :
          LET evs == {e \in Range(hp_events[loc]) :
                         /\ e.camera_name = cam
                         /\ e.day_obs = year * 10000 + month * 100 + list[i][1]}
          IN /\ \E e \in evs : e.seq_num = list[i][2]
             /\ \A e \in evs : e.seq_num <= list[i][2]

\* the months and years of the days of a run
RunMonths == {MonthOf(d) : d \in FirstDay..(FirstDay + MaxRollovers)}

RunYears == {YearOf(d) : d \in FirstDay..(FirstDay + MaxRollovers)}

\* C37: once the build is done, for every camera of a location with a
\* snapshot, get_days_for_month_and_year returns one (day, max_seq) pair per day with an
\* event of the camera, in ascending day order, with the largest seq_num of
\* the day, and get_camera_calendar returns these lists under their year and
\* month and no other list
C37_CalendarListsDaysWithMaxSeq ==
    ~is_busy => \A loc \in DOMAIN hp_events : \A cam \in Range(CamerasOf(loc)) :
        /\ \A year \in RunYears : \A month \in RunMonths :
              IsDayList(get_days_for_month_and_year(loc, cam, month, year),
                        loc, cam, month, year)
        /\ LET cal == get_camera_calendar(loc, cam)
           IN /\ cal.raised = ""
              /\ \A year \in DOMAIN cal.years :
                    \A month \in DOMAIN cal.years[year] :
                       cal.years[year][month] =
                          get_days_for_month_and_year(loc, cam, month, year)
              /\ \A year \in RunYears : \A month \in RunMonths :
                    EventDays(loc, cam, month, year) # {}
                        => /\ year \in DOMAIN cal.years
                           /\ month \in DOMAIN cal.years[year]

\* C39: whenever is_busy() is false every configured location has an entry
\* in each dict of the historical snapshot, so that a query for the location
\* finds its entry, whatever happened in the first refresh of the location
C39_NotBusyMeansEveryLocationStored ==
    ~is_busy =>
        \A loc \in LocationNames :
            /\ loc \in DOMAIN hp_events
            /\ loc \in DOMAIN hp_metadata
            /\ loc \in DOMAIN hp_nr_metadata
            /\ loc \in DOMAIN hp_camera_years

\* C40: constructing a second CurrentPoller changes none of the objects,
\* metadata and current events the first instance returns, nor the historical
\* snapshot
C40_SecondInstanceLeavesCacheAlone ==
    [][ConstructCurrentPoller =>
        UNCHANGED <<cp_objects, cp_metadata, cp_channels, hp_events,
                    hp_metadata, hp_nr_metadata, hp_camera_years>>]_vars

====
